---- MODULE Spec2Model ----
(***************************************************************************)
(* Model of multi_sheet_photo_renamer.py: the file index, the matcher of   *)
(* process_sheet, rename_files and the run loop of rinomina_foto_in_batch. *)
(*                                                                         *)
(* A Python str is a sequence of one-character strings, so that lower(),   *)
(* strip(), the "in" substring test, os.path.splitext and the f-string of  *)
(* the new name are computed, not assumed.  A spreadsheet cell read with   *)
(* dtype=str is either missing (pd.isna) or a str.                         *)
(***************************************************************************)
EXTENDS Naturals, Sequences, FiniteSets

----------------------------------------------------------------------------
(* Bounds of the model *)

MaxFiles == 2

\* rows of the whole workbook; an empty sheet counts as one row, so that the
\* number of sheets is bounded too
MaxRows == 2

----------------------------------------------------------------------------
(* Python str primitives *)

UpperCase == <<"A","B","C","D","E","F","G","H","I","J","K","L","M",
               "N","O","P","Q","R","S","T","U","V","W","X","Y","Z">>

LowerCase == <<"a","b","c","d","e","f","g","h","i","j","k","l","m",
               "n","o","p","q","r","s","t","u","v","w","x","y","z">>

Whitespace == {" ", "\t", "\n", "\r"}

Digits == <<"0","1","2","3","4","5","6","7","8","9">>

Range(s) == {s[i] : i \in DOMAIN s}

\* the lowercase letter of each uppercase letter
ToLower ==
    [c \in Range(UpperCase) |->
        LowerCase[CHOOSE k \in DOMAIN UpperCase : UpperCase[k] = c]]

LowerChar(c) == IF c \in DOMAIN ToLower THEN ToLower[c] ELSE c

\* str.lower()
Lower(s) == [k \in DOMAIN s |-> LowerChar(s[k])]

\* str.strip(): drops leading and trailing whitespace
Strip(s) ==
    LET keep == {k \in DOMAIN s : s[k] \notin Whitespace}
    IN  IF keep = {} THEN <<>>
        ELSE LET lo == CHOOSE k \in keep : \A j \in keep : k <= j
                 hi == CHOOSE k \in keep : \A j \in keep : j <= k
             IN  SubSeq(s, lo, hi)

\* the Python test  sub in s  on two str
Contains(sub, s) ==
    \E k \in 1..(Len(s) + 1) :
        /\ k + Len(sub) - 1 <= Len(s)
        /\ SubSeq(s, k, k + Len(sub) - 1) = sub

\* str.endswith(suffix)
EndsWith(s, suffix) ==
    /\ Len(suffix) <= Len(s)
    /\ SubSeq(s, Len(s) - Len(suffix) + 1, Len(s)) = suffix

RECURSIVE IntToStr(_)
\* the f-string rendering {i} of a non-negative int
IntToStr(n) ==
    IF n < 10 THEN <<Digits[n + 1]>>
    ELSE IntToStr(n \div 10) \o <<Digits[(n % 10) + 1]>>

\* os.path.splitext(name)[1] for a name without directory separators: the
\* suffix from the last dot, unless only dots precede that dot
SplitextExt(name) ==
    LET dots == {k \in DOMAIN name : name[k] = "."}
    IN  IF dots = {} THEN <<>>
        ELSE LET dotIndex == CHOOSE k \in dots : \A j \in dots : j <= k
             IN  IF \E j \in 1..(dotIndex - 1) : name[j] # "."
                 THEN SubSeq(name, dotIndex, Len(name))
                 ELSE <<>>

----------------------------------------------------------------------------
(* Program constants *)

FILE_EXTENSION == <<".","j","p","g">>

EAN_COLUMN == "EAN"

\* BRAND_COLUMN_MAPPINGS["brand"]
columns_to_match == <<"Campo1", "Campo2">>

----------------------------------------------------------------------------
(* Inputs: the photo directory and the spreadsheet rows *)

\* a cell for which pd.notna is false
NaN == [na |-> TRUE, s |-> <<>>]

\* a cell holding the str s
Cell(s) == [na |-> FALSE, s |-> s]

FilePool ==
    { <<"r","e","d","-","a",".","j","p","g">>,
      <<"R","E","D","-","B",".","J","P","G">>,
      <<"7","-","0",".","j","p","g">>,
      <<"r","e","d",".","t","x","t">> }

RowPool ==
    { [EAN |-> Cell(<<"7">>),         Campo1 |-> Cell(<<"R","e","d"," ">>), Campo2 |-> NaN],
      [EAN |-> Cell(<<" ","8"," ">>), Campo1 |-> Cell(<<" ">>),             Campo2 |-> Cell(<<"r","e","d">>)],
      [EAN |-> Cell(<<"7">>),         Campo1 |-> NaN,                       Campo2 |-> Cell(<<>>)],
      [EAN |-> NaN,                   Campo1 |-> Cell(<<"r","e","d">>),     Campo2 |-> NaN],
      [EAN |-> Cell(<<" "," ">>),     Campo1 |-> Cell(<<"-","B">>),         Campo2 |-> Cell(<<"r","e","d">>)] }

\* the data frames pd.read_excel can return for one sheet
DataFrames == UNION {[1..n -> RowPool] : n \in 0..MaxRows}

\* the orders in which os.listdir can return the names of a directory
Listings(folder) ==
    {l \in [1..Cardinality(folder) -> folder] : Range(l) = folder}

----------------------------------------------------------------------------
(* State *)

VARIABLES
    pc,                  \* position in rinomina_foto_in_batch / process_sheet
    photo_folder,        \* names present in the photo directory
    file_jpg,            \* the .jpg names listed at start
    indice_file,         \* ordered dict name -> lowercase name
    file_rinominati,     \* set of old names renamed so far
    ean_non_trovati,     \* rows of the report
    codeno,              \* EANs without files
    codesi,              \* EANs with files
    conteggio_rinominati,\* total of rinomina_foto_in_batch
    sheet_no,            \* number of sheets opened so far
    df,                  \* data frame of the current sheet
    idx,                 \* 0-based row index in df
    renamed,             \* running total of process_sheet
    report_written,      \* make_report wrote the csv
    rows_read,           \* rows of the sheets read so far (an empty sheet counts 1)
    trace                \* history: one record per row that reached the matcher

vars == <<pc, photo_folder, file_jpg, indice_file, file_rinominati,
          ean_non_trovati, codeno, codesi, conteggio_rinominati, sheet_no,
          df, idx, renamed, report_written, rows_read, trace>>

Keys(indice) == {indice[k].nome_file : k \in DOMAIN indice}

----------------------------------------------------------------------------
(* rename_files *)

\* variant: the suffix counts from 1
NuovoNomeFromOne(ean, i, vecchio_nome) ==
    ean \o <<"-">> \o IntToStr(i + 1) \o SplitextExt(vecchio_nome)

\* f"{ean}-{i}{estensione}" with estensione = os.path.splitext(vecchio_nome)[1]
NuovoNome(ean, i, vecchio_nome) ==
    ean \o <<"-">> \o IntToStr(i) \o SplitextExt(vecchio_nome)

\* os.rename(src, dst) inside a directory: raises when src is absent or when
\* the operating system refuses (permitted = FALSE); otherwise dst names the
\* file, replacing whatever dst named before
OsRename(folder, src, dst, permitted) ==
    IF src \in folder /\ permitted
    THEN [ok |-> TRUE,  folder |-> (folder \ {src}) \cup {dst}]
    ELSE [ok |-> FALSE, folder |-> folder]

\* the record rename_files keeps of one os.rename call
Attempt(st, vecchio_nome, nuovo_nome, ok) ==
    [vecchio_nome |-> vecchio_nome, nuovo_nome |-> nuovo_nome, ok |-> ok,
     replaced |-> nuovo_nome \in st.photo_folder /\ nuovo_nome # vecchio_nome]

\* variant: a successful rename is neither recorded in file_rinominati nor
\* deleted from the index
RenameStepNoBookkeeping(st, ean, i, vecchio_nome, permitted) ==
    LET nuovo_nome == NuovoNome(ean, i, vecchio_nome)
        r == OsRename(st.photo_folder, vecchio_nome, nuovo_nome, permitted)
        att == Attempt(st, vecchio_nome, nuovo_nome, r.ok)
    IN  IF r.ok
        THEN [st EXCEPT !.photo_folder = r.folder,
                        !.conteggio = st.conteggio + 1,
                        !.attempts = Append(st.attempts, att)]
        ELSE [st EXCEPT !.attempts = Append(st.attempts, att)]

\* variant: the entry is deleted from the index whether or not os.rename raised
RenameStepAlwaysConsume(st, ean, i, vecchio_nome, permitted) ==
    LET nuovo_nome == NuovoNome(ean, i, vecchio_nome)
        r == OsRename(st.photo_folder, vecchio_nome, nuovo_nome, permitted)
        att == Attempt(st, vecchio_nome, nuovo_nome, r.ok)
        gone == SelectSeq(st.indice_file, LAMBDA e : e.nome_file # vecchio_nome)
    IN  IF r.ok
        THEN [photo_folder    |-> r.folder,
              file_rinominati |-> st.file_rinominati \cup {vecchio_nome},
              conteggio       |-> st.conteggio + 1,
              indice_file     |-> gone,
              attempts        |-> Append(st.attempts, att)]
        ELSE [st EXCEPT !.indice_file = gone,
                        !.attempts = Append(st.attempts, att)]

\* variant: a successful rename is not counted
RenameStepNoCount(st, ean, i, vecchio_nome, permitted) ==
    LET nuovo_nome == NuovoNome(ean, i, vecchio_nome)
        r == OsRename(st.photo_folder, vecchio_nome, nuovo_nome, permitted)
        att == Attempt(st, vecchio_nome, nuovo_nome, r.ok)
    IN  IF r.ok
        THEN [photo_folder    |-> r.folder,
              file_rinominati |-> st.file_rinominati \cup {vecchio_nome},
              conteggio       |-> st.conteggio,
              indice_file     |-> SelectSeq(st.indice_file,
                                     LAMBDA e : e.nome_file # vecchio_nome),
              attempts        |-> Append(st.attempts, att)]
        ELSE [st EXCEPT !.attempts = Append(st.attempts, att)]

\* one iteration of the for loop of rename_files; i is the enumerate index
RenameStep(st, ean, i, vecchio_nome, permitted) ==
    LET nuovo_nome == NuovoNome(ean, i, vecchio_nome)
        r == OsRename(st.photo_folder, vecchio_nome, nuovo_nome, permitted)
        att == Attempt(st, vecchio_nome, nuovo_nome, r.ok)
    IN  IF r.ok
        THEN [photo_folder    |-> r.folder,
              file_rinominati |-> st.file_rinominati \cup {vecchio_nome},
              conteggio       |-> st.conteggio + 1,
              indice_file     |-> SelectSeq(st.indice_file,
                                     LAMBDA e : e.nome_file # vecchio_nome),
              attempts        |-> Append(st.attempts, att)]
        ELSE [st EXCEPT !.attempts = Append(st.attempts, att)]

RECURSIVE RenameLoop(_, _, _, _, _)
RenameLoop(k, files, ean, st, permitted) ==
    IF k > Len(files) THEN st
    ELSE RenameLoop(k + 1, files, ean,
                    RenameStep(st, ean, k - 1, files[k], permitted[k]),
                    permitted)

RECURSIVE RenameLoopAbort(_, _, _, _, _)
RenameLoopAbort(k, files, ean, st, permitted) ==
    IF k > Len(files) THEN st
    ELSE LET nx == RenameStep(st, ean, k - 1, files[k], permitted[k])
         IN  IF nx.attempts[Len(nx.attempts)].ok
             THEN RenameLoopAbort(k + 1, files, ean, nx, permitted)
             ELSE nx

\* variant: the first os.rename that raises ends the loop
RenameFilesAbort(files, ean, indice, folder, rinominati, permitted) ==
    RenameLoopAbort(1, files, ean,
               [photo_folder |-> folder, file_rinominati |-> rinominati,
                conteggio |-> 0, indice_file |-> indice, attempts |-> <<>>],
               permitted)

\* rename_files(files, ean, indice_file, photo_folder, file_rinominati);
\* permitted[k] tells whether the operating system lets the k-th rename through
RenameFiles(files, ean, indice, folder, rinominati, permitted) ==
    RenameLoop(1, files, ean,
               [photo_folder |-> folder, file_rinominati |-> rinominati,
                conteggio |-> 0, indice_file |-> indice, attempts |-> <<>>],
               permitted)

----------------------------------------------------------------------------
(* process_sheet: one row *)

\* valori: the present cells of the columns to match, lowercased and stripped
Valori(riga) ==
    [c \in {c \in Range(columns_to_match) : ~riga[c].na} |->
        Strip(Lower(riga[c].s))]

\* variant: one value found in the name is enough
TuttiPresentiAny(valori, nome_file_lower) ==
    \/ DOMAIN valori = {}
    \/ \E c \in DOMAIN valori :
          ~(valori[c] # <<>> /\ ~Contains(valori[c], nome_file_lower))

\* tutti_presenti for one file
TuttiPresenti(valori, nome_file_lower) ==
    \A c \in DOMAIN valori :
        ~(valori[c] # <<>> /\ ~Contains(valori[c], nome_file_lower))

\* variant: the scan stops at the first corresponding file
FileCorrispondentiFirst(indice, rinominati, valori) ==
    LET hit == SelectSeq(indice,
                   LAMBDA e : /\ e.nome_file \notin rinominati
                              /\ TuttiPresenti(valori, e.nome_file_lower))
    IN  IF hit = <<>> THEN <<>> ELSE <<hit[1].nome_file>>

\* file_corrispondenti
FileCorrispondenti(indice, rinominati, valori) ==
    LET hit == SelectSeq(indice,
                   LAMBDA e : /\ e.nome_file \notin rinominati
                              /\ TuttiPresenti(valori, e.nome_file_lower))
    IN  [k \in DOMAIN hit |-> hit[k].nome_file]

\* the row has an EAN
HasEan(riga) == ~riga[EAN_COLUMN].na

Ean(riga) == Strip(riga[EAN_COLUMN].s)

\* info_riga without its timestamp
InfoRiga(i, riga) ==
    [riga_excel |-> i + 1,
     ean |-> Ean(riga),
     cols |-> [c \in {c \in Range(columns_to_match) : ~riga[c].na} |-> riga[c].s]]

----------------------------------------------------------------------------
(* Initial state and actions *)

Init ==
    /\ pc = "start"
    /\ photo_folder \in {S \in SUBSET FilePool : Cardinality(S) <= MaxFiles}
    /\ file_jpg = <<>>
    /\ indice_file = <<>>
    /\ file_rinominati = {}
    /\ ean_non_trovati = <<>>
    /\ codeno = <<>>
    /\ codesi = <<>>
    /\ conteggio_rinominati = 0
    /\ sheet_no = 0
    /\ df = <<>>
    /\ idx = 0
    /\ renamed = 0
    /\ report_written = FALSE
    /\ rows_read = 0
    /\ trace = <<>>

\* rinomina_foto_in_batch up to the index
BuildIndex ==
    /\ pc = "start"
    /\ \E tutti_file \in Listings(photo_folder) :
          LET jpg == SelectSeq(tutti_file,
                         LAMBDA f : EndsWith(Lower(f), FILE_EXTENSION))
          IN  /\ file_jpg' = jpg
              /\ indice_file' = [k \in DOMAIN jpg |->
                                   [nome_file |-> jpg[k],
                                    nome_file_lower |-> Lower(jpg[k])]]
    /\ pc' = "sheets"
    /\ UNCHANGED <<rows_read, photo_folder, file_rinominati, ean_non_trovati, codeno,
                   codesi, conteggio_rinominati, sheet_no, df, idx, renamed,
                   report_written, trace>>

\* the next sheet is read and has the needed columns
StartSheet ==
    /\ pc = "sheets"
    /\ \E d \in DataFrames :
          LET size == IF d = <<>> THEN 1 ELSE Len(d)
          IN  /\ rows_read + size <= MaxRows
              /\ df' = d
              /\ rows_read' = rows_read + size
    /\ sheet_no' = sheet_no + 1
    /\ idx' = 0
    /\ renamed' = 0
    /\ pc' = "rows"
    /\ UNCHANGED <<photo_folder, file_jpg, indice_file, file_rinominati,
                   ean_non_trovati, codeno, codesi, conteggio_rinominati,
                   report_written, trace>>

\* pd.ExcelFile / pd.read_excel raises (no file, a needed column is missing):
\* the run returns without results and without report
ReadError ==
    /\ pc = "sheets"
    /\ rows_read < MaxRows
    /\ pc' = "aborted"
    /\ UNCHANGED <<rows_read, photo_folder, file_jpg, indice_file, file_rinominati,
                   ean_non_trovati, codeno, codesi, conteggio_rinominati,
                   sheet_no, df, idx, renamed, report_written, trace>>

\* a row without EAN: continue
SkipRow ==
    /\ pc = "rows"
    /\ idx < Len(df)
    /\ ~HasEan(df[idx + 1])
    /\ idx' = idx + 1
    /\ UNCHANGED <<rows_read, pc, photo_folder, file_jpg, indice_file, file_rinominati,
                   ean_non_trovati, codeno, codesi, conteggio_rinominati,
                   sheet_no, df, renamed, report_written, trace>>

\* a row with EAN and no corresponding file
RowNotFound ==
    /\ pc = "rows"
    /\ idx < Len(df)
    /\ HasEan(df[idx + 1])
    /\ LET riga == df[idx + 1]
           files == FileCorrispondenti(indice_file, file_rinominati, Valori(riga))
       IN  /\ files = <<>>
           /\ ean_non_trovati' = Append(ean_non_trovati, InfoRiga(idx, riga))
           /\ codeno' = Append(codeno, Ean(riga))
           /\ trace' = Append(trace,
                 [sheet |-> sheet_no, idx |-> idx, riga |-> riga,
                  candidates |-> indice_file, files |-> files,
                  attempts |-> <<>>, count |-> 0])
    /\ idx' = idx + 1
    /\ UNCHANGED <<rows_read, pc, photo_folder, file_jpg, indice_file, file_rinominati,
                   codesi, conteggio_rinominati, sheet_no, df, renamed,
                   report_written>>

\* a row with EAN and corresponding files: rename_files
RowRename ==
    /\ pc = "rows"
    /\ idx < Len(df)
    /\ HasEan(df[idx + 1])
    /\ LET riga == df[idx + 1]
           files == FileCorrispondenti(indice_file, file_rinominati, Valori(riga))
       IN  /\ files # <<>>
           /\ \E permitted \in [DOMAIN files -> BOOLEAN] :
                 LET st == RenameFiles(files, Ean(riga), indice_file,
                                       photo_folder, file_rinominati, permitted)
                 IN  /\ photo_folder' = st.photo_folder
                     /\ indice_file' = st.indice_file
                     /\ file_rinominati' = st.file_rinominati
                     /\ renamed' = renamed + st.conteggio
                     /\ trace' = Append(trace,
                           [sheet |-> sheet_no, idx |-> idx, riga |-> riga,
                            candidates |-> indice_file, files |-> files,
                            attempts |-> st.attempts, count |-> st.conteggio])
           /\ codesi' = Append(codesi, Ean(riga))
    /\ idx' = idx + 1
    /\ UNCHANGED <<rows_read, pc, file_jpg, ean_non_trovati, codeno, conteggio_rinominati,
                   sheet_no, df, report_written>>

\* process_sheet returns; its total is added to the run's
EndSheet ==
    /\ pc = "rows"
    /\ idx = Len(df)
    /\ conteggio_rinominati' = conteggio_rinominati + renamed
    /\ pc' = "sheets"
    /\ UNCHANGED <<rows_read, photo_folder, file_jpg, indice_file, file_rinominati,
                   ean_non_trovati, codeno, codesi, sheet_no, df, idx, renamed,
                   report_written, trace>>

\* all sheets done: print_results and make_report
Finish ==
    /\ pc = "sheets"
    /\ sheet_no >= 1
    /\ report_written' = (ean_non_trovati # <<>>)
    /\ pc' = "done"
    /\ UNCHANGED <<rows_read, photo_folder, file_jpg, indice_file, file_rinominati,
                   ean_non_trovati, codeno, codesi, conteggio_rinominati,
                   sheet_no, df, idx, renamed, trace>>

Next ==
    \/ BuildIndex
    \/ StartSheet
    \/ ReadError
    \/ SkipRow
    \/ RowNotFound
    \/ RowRename
    \/ EndSheet
    \/ Finish

Spec == Init /\ [][Next]_vars

----------------------------------------------------------------------------
(* Vocabulary of the properties *)

\* the old names one row renamed successfully
RenamedBy(t) ==
    {t.attempts[k].vecchio_nome : k \in {j \in DOMAIN t.attempts : t.attempts[j].ok}}

\* the old names whose rename failed in one row
FailedIn(t) ==
    {t.attempts[k].vecchio_nome : k \in {j \in DOMAIN t.attempts : ~t.attempts[j].ok}}

AllSucceeded(t) == \A k \in DOMAIN t.attempts : t.attempts[k].ok

\* sub occurs in s at offset k, character by character
OccursAt(sub, s, k) ==
    /\ k + Len(sub) <= Len(s)
    /\ \A j \in 1..Len(sub) : s[k + j] = sub[j]

IsSubstring(sub, s) == \E k \in 0..Len(s) : OccursAt(sub, s, k)

\* the non-empty attribute values of a row, lowercased and trimmed
Constraints(riga) ==
    {Strip(Lower(riga[c].s)) : c \in {d \in Range(columns_to_match) : ~riga[d].na}}
        \ {<<>>}

\* the EAN cell is missing, empty or whitespace-only
BlankEan(riga) == riga[EAN_COLUMN].na \/ Strip(riga[EAN_COLUMN].s) = <<>>

\* the extension of a name: its suffix from the last dot on, when some other
\* character than a dot comes before that dot
OriginalExtension(name) ==
    LET cuts == {k \in DOMAIN name :
                    /\ name[k] = "."
                    /\ \A j \in (k + 1)..Len(name) : name[j] # "."
                    /\ \E j \in 1..(k - 1) : name[j] # "."}
    IN  IF cuts = {} THEN <<>>
        ELSE LET k == CHOOSE c \in cuts : TRUE
             IN  [j \in 1..(Len(name) - k + 1) |-> name[k + j - 1]]

RECURSIVE SumCounts(_)
SumCounts(tr) ==
    IF tr = <<>> THEN 0 ELSE tr[1].count + SumCounts(Tail(tr))

\* what the run has renamed so far: the total of the finished sheets plus the
\* running total of the sheet in progress
RenamedSoFar ==
    IF pc = "rows" THEN conteggio_rinominati + renamed ELSE conteggio_rinominati

Red == <<"r","e","d">>

IsPhoto(name) == EndsWith(Lower(name), FILE_EXTENSION)

----------------------------------------------------------------------------
(* C1 *)

\* C1: no index entry is renamed by more than one row: the sets of files
\* renamed by two distinct processed rows are disjoint, and a row renames no
\* file twice, whatever renames succeed or fail.
C1_Exclusivity ==
    /\ \A i, j \in DOMAIN trace :
          i # j => RenamedBy(trace[i]) \cap RenamedBy(trace[j]) = {}
    /\ \A i \in DOMAIN trace : \A k, l \in DOMAIN trace[i].attempts :
          (/\ k # l
           /\ trace[i].attempts[k].ok
           /\ trace[i].attempts[l].ok)
          => trace[i].attempts[k].vecchio_nome # trace[i].attempts[l].vecchio_nome

\* two rows each renamed a file, the later one a file the earlier one had
\* matched and failed to rename
C1_Witness ==
    \E i, j \in DOMAIN trace :
        /\ i < j
        /\ RenamedBy(trace[i]) # {}
        /\ FailedIn(trace[i]) \cap RenamedBy(trace[j]) # {}

----------------------------------------------------------------------------
(* C2 *)

\* C2: for a row with EAN e and match list f_0..f_(n-1), rename_files tries
\* exactly one rename per f_i, in order, and its target is e, "-", the
\* decimal i and the original extension of f_i; so when all succeed the
\* targets are e-0<ext> .. e-(n-1)<ext>.
C2_NamingConvention ==
    \A t \in Range(trace) :
        /\ Len(t.attempts) = Len(t.files)
        /\ \A k \in DOMAIN t.files :
              /\ k <= 10
              /\ t.attempts[k].vecchio_nome = t.files[k]
              /\ t.attempts[k].nuovo_nome =
                    Strip(t.riga[EAN_COLUMN].s) \o <<"-", Digits[k]>>
                        \o OriginalExtension(t.files[k])

\* a row renamed two files with different extensions, both successfully
C2_Witness ==
    \E t \in Range(trace) :
        /\ Len(t.files) >= 2
        /\ AllSucceeded(t)
        /\ OriginalExtension(t.files[1]) # OriginalExtension(t.files[2])
        /\ Strip(t.riga[EAN_COLUMN].s) # <<>>

----------------------------------------------------------------------------
(* C3 *)

\* C3: no successful rename replaces another existing file, and the number of
\* photo files in the directory after the run equals the number before it.
C3_NoSilentOverwrite ==
    /\ \A t \in Range(trace) : \A k \in DOMAIN t.attempts :
          t.attempts[k].ok => ~t.attempts[k].replaced
    /\ pc = "done" =>
          Cardinality({f \in photo_folder : IsPhoto(f)}) = Len(file_jpg)

----------------------------------------------------------------------------
(* C4 *)

\* C4 as stated: a file whose rename failed is removed from the index all the
\* same, so it is no candidate of any later row nor in the index afterwards.
C4_FailedRenameConsumed ==
    \A i \in DOMAIN trace : \A f \in FailedIn(trace[i]) :
        /\ \A j \in DOMAIN trace : j > i => f \notin Keys(trace[j].candidates)
        /\ i = Len(trace) => f \notin Keys(indice_file)

\* C4 amended: a file whose rename failed is tried once in that call and not
\* again, and its entry stays in the index: it is a candidate of every later
\* row until a row renames it, and it is in the index after the last row.
C4_FailedRenameKept ==
    \A i \in DOMAIN trace :
        /\ Len(trace[i].attempts) = Len(trace[i].files)
        /\ \A k, l \in DOMAIN trace[i].attempts :
              k # l => trace[i].attempts[k].vecchio_nome
                          # trace[i].attempts[l].vecchio_nome
        /\ \A f \in FailedIn(trace[i]) :
              /\ \A j \in DOMAIN trace :
                    (/\ j > i
                     /\ \A m \in (i + 1)..(j - 1) : f \notin RenamedBy(trace[m]))
                    => f \in Keys(trace[j].candidates)
              /\ (\A m \in (i + 1)..Len(trace) : f \notin RenamedBy(trace[m]))
                    => f \in Keys(indice_file)

\* a file whose rename failed in one row is matched and renamed by a later row
C4_Witness ==
    \E i, j \in DOMAIN trace :
        /\ i < j
        /\ \E f \in FailedIn(trace[i]) :
              /\ f \in Range(trace[j].files)
              /\ f \in RenamedBy(trace[j])

----------------------------------------------------------------------------
(* C5 *)

\* C5: a file of the index is in a row's match list iff its lowercased name
\* contains every non-empty lowercased, trimmed attribute value of the row;
\* the match list keeps the index order; a row without such a value matches
\* every file of the index.
C5_MatcherSemantics ==
    \A t \in Range(trace) :
        LET values == Constraints(t.riga)
            matched == Range(t.files)
        IN  /\ \A e \in Range(t.candidates) :
                  LET lowered == Lower(e.nome_file)
                  IN  e.nome_file \in matched
                          <=> \A v \in values : IsSubstring(v, lowered)
            /\ matched \subseteq Keys(t.candidates)
            /\ values = {} => Len(t.files) = Len(t.candidates)

\* a row with two non-empty values took one file and left another that has
\* only one of the values; and a row without values took a whole index of two
C5_Witness ==
    /\ \E t \in Range(trace) :
          /\ Cardinality(Constraints(t.riga)) = 2
          /\ t.files # <<>>
          /\ \E e \in Range(t.candidates) :
                /\ e.nome_file \notin Range(t.files)
                /\ \E v \in Constraints(t.riga) : IsSubstring(v, Lower(e.nome_file))
    /\ \E t \in Range(trace) :
          /\ Constraints(t.riga) = {}
          /\ Len(t.files) = 2

----------------------------------------------------------------------------
(* C6 *)

\* the index built from the listing
InitialIndex ==
    [k \in DOMAIN file_jpg |->
        [nome_file |-> file_jpg[k], nome_file_lower |-> Lower(file_jpg[k])]]

\* the first two rows that reach the matcher carry an EAN and only the value
\* "red", the index has exactly two files, both with "red" in the name, and
\* every rename of the two rows succeeds
C6_Scenario ==
    /\ Len(file_jpg) = 2
    /\ \A f \in Range(file_jpg) : IsSubstring(Red, Lower(f))
    /\ Len(trace) >= 2
    /\ \A i \in 1..2 :
          /\ ~BlankEan(trace[i].riga)
          /\ Constraints(trace[i].riga) = {Red}
          /\ AllSucceeded(trace[i])

\* C6: in that scenario the row processed first consumes both files and the
\* row processed second is recorded as unmatched, whichever of the two comes
\* first; rows reach the matcher in sheet order, then row order, and each
\* sees exactly the index left by the rows before it.
C6_OrderSensitivity ==
    /\ C6_Scenario =>
          /\ RenamedBy(trace[1]) = Range(file_jpg)
          /\ trace[2].files = <<>>
          /\ Len(ean_non_trovati) >= 1
          /\ ean_non_trovati[1].ean = Strip(trace[2].riga[EAN_COLUMN].s)
          /\ ean_non_trovati[1].riga_excel = trace[2].idx + 1
          /\ codesi[1] = Strip(trace[1].riga[EAN_COLUMN].s)
          /\ codeno[1] = Strip(trace[2].riga[EAN_COLUMN].s)
    /\ \A i, j \in DOMAIN trace :
          i < j => \/ trace[i].sheet < trace[j].sheet
                   \/ /\ trace[i].sheet = trace[j].sheet
                      /\ trace[i].idx < trace[j].idx
    /\ \A i \in DOMAIN trace :
          trace[i].candidates =
              IF i = 1 THEN InitialIndex
              ELSE SelectSeq(trace[i - 1].candidates,
                       LAMBDA e : e.nome_file \notin RenamedBy(trace[i - 1]))

\* the scenario with the row of EAN 8 first and the row of EAN 7 second, in
\* two different sheets
C6_Witness ==
    /\ C6_Scenario
    /\ Strip(trace[1].riga[EAN_COLUMN].s) = <<"8">>
    /\ Strip(trace[2].riga[EAN_COLUMN].s) = <<"7">>
    /\ trace[1].sheet < trace[2].sheet
    /\ trace[2].files = <<>>

----------------------------------------------------------------------------
(* C7 *)

RECURSIVE ExpectedUnmatched(_)
\* the rows with a non-blank EAN that had no matching file when processed
ExpectedUnmatched(tr) ==
    IF tr = <<>> THEN <<>>
    ELSE (IF ~BlankEan(tr[1].riga) /\ tr[1].files = <<>>
          THEN <<[riga_excel |-> tr[1].idx + 1,
                  ean |-> Strip(tr[1].riga[EAN_COLUMN].s)]>>
          ELSE <<>>)
         \o ExpectedUnmatched(Tail(tr))

\* C7: at the end of the run the unmatched records are exactly, in order, the
\* rows with a non-blank EAN that had no matching file when processed, each
\* with its EAN and 1-based row index, and the report is written iff there
\* is at least one.
C7_UnmatchedAccounting ==
    pc = "done" =>
        LET expected == ExpectedUnmatched(trace)
        IN  /\ [k \in DOMAIN ean_non_trovati |->
                  [riga_excel |-> ean_non_trovati[k].riga_excel,
                   ean |-> ean_non_trovati[k].ean]] = expected
            /\ report_written <=> (Len(expected) > 0)

----------------------------------------------------------------------------
(* C8 *)

\* C8: a step of process_sheet on a row whose EAN cell is missing, empty or
\* whitespace-only runs no matching and leaves the directory, the index, the
\* renamed files and count, the found and not-found lists and the unmatched
\* records unchanged.
C8_BlankEanSkip ==
    [][(/\ pc = "rows"
        /\ idx < Len(df)
        /\ BlankEan(df[idx + 1]))
       => UNCHANGED <<photo_folder, indice_file, file_rinominati, renamed,
                      conteggio_rinominati, codesi, codeno, ean_non_trovati,
                      trace>>]_vars

----------------------------------------------------------------------------
(* C9 *)

\* C9: rename_files attempts every file of the match list, also after a
\* failed rename; the count it returns is the number of renames that
\* succeeded, and the run's total is the sum of these counts; a failed rename
\* ends neither the sheet nor the run: when a sheet is finished every one of
\* its rows with an EAN has been processed.
C9_FailureIsolation ==
    /\ \A t \in Range(trace) :
          /\ Len(t.attempts) = Len(t.files)
          /\ \A k \in DOMAIN t.files : t.attempts[k].vecchio_nome = t.files[k]
          /\ t.count = Cardinality({k \in DOMAIN t.attempts : t.attempts[k].ok})
    /\ RenamedSoFar = SumCounts(trace)
    /\ (pc \in {"sheets", "done"} /\ sheet_no >= 1) =>
          {t.idx : t \in {u \in Range(trace) : u.sheet = sheet_no}}
              = {i \in 0..(Len(df) - 1) : ~df[i + 1][EAN_COLUMN].na}

\* a rename failed, the next file of the same match list was renamed, and a
\* later row renamed a file too
C9_Witness ==
    \E i, j \in DOMAIN trace :
        /\ i < j
        /\ Len(trace[i].attempts) = 2
        /\ ~trace[i].attempts[1].ok
        /\ trace[i].attempts[2].ok
        /\ trace[i].count = 1
        /\ trace[j].count >= 1

----------------------------------------------------------------------------
(* C10 *)

\* C10: once the index is built, no entry is added to it and an entry leaves
\* it only by a successful rename of that file: the entries gone are exactly
\* the files renamed, the renamed total plus the size of the index is the
\* number of .jpg files listed, and no renamed name is still in the index.
C10_IndexConservation ==
    pc # "start" =>
        /\ Keys(indice_file) \subseteq Range(file_jpg)
        /\ Range(file_jpg) \ Keys(indice_file)
              = UNION {RenamedBy(t) : t \in Range(trace)}
        /\ file_rinominati = UNION {RenamedBy(t) : t \in Range(trace)}
        /\ RenamedSoFar + Len(indice_file) = Len(file_jpg)
        /\ file_rinominati \cap Keys(indice_file) = {}

\* between two rows: one file renamed, another still in the index after its
\* rename failed
C10_Witness ==
    /\ pc = "rows"
    /\ RenamedSoFar = 1
    /\ Len(indice_file) = 1
    /\ \E t \in Range(trace) : FailedIn(t) \cap Keys(indice_file) # {}

====
